---- MODULE Spec2Model ----
(***************************************************************************)
(* file-per-thread-logger: a log backend that writes every thread's        *)
(* records to a file of its own.                                           *)
(*                                                                         *)
(* State: the thread-local WRITER cell of every thread (the optional       *)
(* BufWriter<File> and the RefCell's mutable-borrow flag), the global      *)
(* ALLOW_UNINITIALIZED flag, the `log` facade's global logger slot, the    *)
(* files of the current directory; RUST_LOG is an input of initialize.     *)
(* A log call whose message rendering issues a nested log call is split at *)
(* the rendering, so the cell's state during a nested call is a state of   *)
(* the model.                                                              *)
(***************************************************************************)
EXTENDS Integers, Sequences, FiniteSets, TLC

VARIABLES
    tname,      \* thread -> Option<name>: <<>> (unnamed) or <<name>>
    allow,      \* ALLOW_UNINITIALIZED
    logger,     \* the facade's global slot: <<>> or <<FilePerThreadLogger>>
    files,      \* path -> file content (a sequence of lines)
    writer,     \* thread -> WRITER's value: <<>> (None) or <<BufWriter<File>>>
    borrowed,   \* thread -> WRITER's RefCell is mutably borrowed
    stack,      \* thread -> log calls suspended in their message rendering
    status,     \* thread -> "running" or the panic that ended it:
                \*   "panic_uninit"  call the logger's initialize() function first
                \*   "panic_open"    Can't open tracing file
                \*   "panic_borrow"  already borrowed: BorrowMutError
                \*   "panic_unwrap"  Option::unwrap() on a None value
                \*   "panic_io"      Result::unwrap() on an Err value
    emitted,    \* thread -> number of records the application emitted there
    accepted,   \* thread -> records that passed the filter in log() (history)
    opens,      \* thread -> the paths it created with File::create (history)
    inits,      \* thread -> number of init_logging calls
    disk        \* "ok", or "full": a write to a file fails (ENOSPC)

vars == <<tname, allow, logger, files, writer, borrowed, stack, status,
          emitted, accepted, opens, inits, disk>>

----------------------------------------------------------------------------
\* Bounds of the model.

\* init_logging calls and records the application emits (nested ones
\* included), all threads together
MaxCalls == 4
\* the capacity of a BufWriter, in lines (8 KiB in std)
BufCap == 2
\* log calls nested in one another, in the application with deep nesting
MaxDepth == 3
Threads == {1, 2}

----------------------------------------------------------------------------
\* Strings are sequences of one-character strings.

Prefixes == { <<"p", ".">>, <<"x", "/">> }

\* thread names the threads are spawned with
ThreadNames ==
    { <<  << <<"a">> >>,  << <<"a", ":">> >>  >>,
      <<  <<>>,           << <<":">> >>       >> }

Digit(n) == <<"0", "1", "2", "3", "4", "5", "6", "7", "8", "9">>[n + 1]

\* format!("{:?}", curthread.id())
ThreadIdDebug(t) ==
    <<"T", "h", "r", "e", "a", "d", "I", "d", "(", Digit(t), ")">>

IsAlphanumeric(ch) ==
    ch \in {"a", "p", "x", "T", "h", "r", "e", "d", "I",
            "0", "1", "2", "3", "4", "5", "6", "7", "8", "9"}

KeepChar(ch) == IsAlphanumeric(ch) \/ ch = "-" \/ ch = "_"

\* a variant of Sanitize: every character is kept
SanitizeNothing(s) == s

Sanitize(s) == SelectSeq(s, KeepChar)

\* the path open_file builds for thread t
SinkPath(t, prefix) ==
    prefix \o Sanitize(IF tname[t] = <<>> THEN ThreadIdDebug(t) ELSE tname[t][1])

\* File::create(path) in a directory tree that holds the current directory only
Creatable(path) ==
    /\ path # <<>>
    /\ \A i \in 1..Len(path) : path[i] # "/"

----------------------------------------------------------------------------
\* Levels and the filter.

LevelOrder == <<"ERROR", "WARN", "INFO", "DEBUG", "TRACE">>
LevelRank(l) == CHOOSE i \in 1..Len(LevelOrder) : LevelOrder[i] = l

\* the levels the modelled application emits
AppLevels == {"INFO", "DEBUG"}

EnvValues == { <<>>, <<"">>, <<"info">> }

\* Builder::parse_filters(v) then build(): no directive means the default, ERROR
ParseFilters(v) == IF v = "info" THEN "INFO" ELSE "ERROR"

\* a variant of Enabled: log does not ask the filter
EnabledAlways(lg, level) == TRUE

Enabled(lg, level) == LevelRank(level) <= LevelRank(lg.filter)

\* None, or a format function that takes the writer before it renders the arguments
Formatters == { <<>>, <<"GetFirst">> }

----------------------------------------------------------------------------
\* Records, lines and files.

\* A record carries the thread it was emitted on and the number of log calls it
\* was emitted inside of (0: by the application's own code).

\* the record of the n-th emission of thread t
AppRecord(t, n, level, depth) ==
    [level |-> level, args |-> <<"msg", Digit(n)>>, by |-> t, depth |-> depth]

\* a variant of Banner: the banner is logged at the debug level
BannerAtDebug(t, prefix) ==
    [level |-> "DEBUG", args |-> <<"Set up logging; filename prefix is ">> \o prefix,
     by |-> t, depth |-> 0]

\* log::info!("Set up logging; filename prefix is {}", filename_prefix)
Banner(t, prefix) ==
    [level |-> "INFO", args |-> <<"Set up logging; filename prefix is ">> \o prefix,
     by |-> t, depth |-> 0]

FormatName(lg) == IF lg.formatter = <<>> THEN "default" ELSE lg.formatter[1]

\* the line a formatter writes for a record
Render(lg, rec) ==
    [fmt |-> FormatName(lg), level |-> rec.level, args |-> rec.args,
     by |-> rec.by, depth |-> rec.depth]

\* the record a line was written for
RecordOf(line) ==
    [level |-> line.level, args |-> line.args, by |-> line.by, depth |-> line.depth]

\* a line's worth of bytes nobody wrote (a gap left by a write past the end)
Hole == [fmt |-> "", level |-> "", args |-> <<>>, by |-> 0, depth |-> 0]

\* a write of data at offset off into a file
WriteAt(content, off, data) ==
    IF data = <<>> THEN content
    ELSE LET end == off + Len(data)
             n == IF end > Len(content) THEN end ELSE Len(content)
         IN [i \in 1..n |->
                IF i > off /\ i <= end THEN data[i - off]
                ELSE IF i <= Len(content) THEN content[i] ELSE Hole]

\* BufWriter::new(file) on a file just created
NewWriter(path) == [path |-> path, buf |-> <<>>, off |-> 0]

\* File::write fails: there is something to write and the disk is full
WriteFails(bw) == bw.buf # <<>> /\ disk = "full"

\* BufWriter::flush_buf: the buffered lines go to the file at the handle's offset;
\* when the write fails they stay in the buffer
FlushBuf(fs, bw) ==
    IF bw.buf = <<>> \/ WriteFails(bw) THEN fs
    ELSE [fs EXCEPT ![bw.path] = WriteAt(@, bw.off, bw.buf)]

Flushed(bw) ==
    IF WriteFails(bw) THEN bw
    ELSE [bw EXCEPT !.buf = <<>>, !.off = @ + Len(bw.buf)]

\* File::create: the file exists and is empty afterwards
CreateFile(fs, path) == (path :> <<>>) @@ fs

----------------------------------------------------------------------------
\* The part of the state one call of thread t reads and writes.

Local(t) ==
    [w |-> writer[t], b |-> borrowed[t], st |-> status[t], acc |-> accepted[t],
     fs |-> files, op |-> opens[t], fr |-> <<>>]

Running(ls) == ls.st = "running"

\* A panic unwinds the thread: every RefMut is dropped, and the thread's exit
\* drops WRITER, which flushes the BufWriter.
Panic(ls, why) ==
    [ls EXCEPT !.st = why, !.b = FALSE, !.w = <<>>, !.fr = <<>>,
               !.fs = IF ls.w = <<>> THEN ls.fs ELSE FlushBuf(ls.fs, ls.w[1])]

\* a variant of OpenFile: a file that cannot be created is not an error
OpenFileOrNothing(ls, t, prefix) ==
    LET path == SinkPath(t, prefix)
    IN IF Creatable(path)
       THEN [ls EXCEPT !.fs = CreateFile(ls.fs, path), !.op = Append(@, path),
                       !.w = <<NewWriter(path)>>]
       ELSE ls

\* open_file(filename_prefix), stored into the slot by its caller
OpenFile(ls, t, prefix) ==
    LET path == SinkPath(t, prefix)
    IN IF Creatable(path)
       THEN [ls EXCEPT !.fs = CreateFile(ls.fs, path), !.op = Append(@, path),
                       !.w = <<NewWriter(path)>>]
       ELSE Panic(ls, "panic_open")

\* a variant of InitNeedsOpen: initialize opens a file whatever the slot holds
InitAlwaysOpens(ls) == TRUE

\* rc.borrow().is_none() in init_logging
InitNeedsOpen(ls) == ls.w = <<>>

\* rc.is_none() in log
LazyNeedsOpen(ls) == ls.w = <<>>

\* init_logging's WRITER.with block
EnsureWriter(ls, t, prefix) ==
    IF InitNeedsOpen(ls) THEN OpenFile(ls, t, prefix) ELSE ls

\* a variant of LazyInit: the flag is not read, every thread gets a sink
LazyInitAlways(ls, t) ==
    IF ls.b THEN Panic(ls, "panic_borrow")
    ELSE IF LazyNeedsOpen(ls) THEN OpenFile(ls, t, <<>>)
    ELSE ls

\* a variant of LazyInit: the RefMut lives to the end of the log call
LazyInitKeepsBorrow(ls, t) ==
    IF ~allow THEN ls
    ELSE IF ls.b THEN Panic(ls, "panic_borrow")
    ELSE LET o == IF LazyNeedsOpen(ls) THEN OpenFile(ls, t, <<>>) ELSE ls
         IN IF Running(o) THEN [o EXCEPT !.b = TRUE] ELSE o

\* a variant of LazyInit: the flag is read and nothing is opened
LazyInitNever(ls, t) == ls

\* log's block under ALLOW_UNINITIALIZED
LazyInit(ls, t) ==
    IF ~allow THEN ls
    ELSE IF ls.b THEN Panic(ls, "panic_borrow")
    ELSE IF LazyNeedsOpen(ls) THEN OpenFile(ls, t, <<>>)
    ELSE ls

\* a variant of TakeWriter: a cell that does not track its borrows
TakeWriterUnchecked(ls) ==
    IF ls.w = <<>> THEN Panic(ls, "panic_uninit")
    ELSE [ls EXCEPT !.b = TRUE]

\* rc.borrow_mut() then .as_mut().expect(..): GetWriter::get, and the same two
\* calls in the default format and in flush
TakeWriter(ls) ==
    IF ls.b THEN Panic(ls, "panic_borrow")
    ELSE IF ls.w = <<>> THEN Panic(ls, "panic_uninit")
    ELSE [ls EXCEPT !.b = TRUE]

\* a variant of WriteLine: the line goes in front of the buffered ones
WriteLineInFront(ls, line) ==
    [ls EXCEPT !.w = <<[ls.w[1] EXCEPT !.buf = <<line>> \o @]>>, !.b = FALSE]

\* a variant of WriteLine: the line is lost
WriteLineLost(ls, line) == [ls EXCEPT !.b = FALSE]

\* a variant of WriteLine: the result of the write is unwrapped
WriteLineUnwrap(ls, line) ==
    IF Len(ls.w[1].buf) >= BufCap /\ WriteFails(ls.w[1]) THEN Panic(ls, "panic_io")
    ELSE LET bw == IF Len(ls.w[1].buf) < BufCap THEN ls.w[1] ELSE Flushed(ls.w[1])
         IN [ls EXCEPT !.fs = IF Len(ls.w[1].buf) < BufCap THEN ls.fs
                               ELSE FlushBuf(ls.fs, ls.w[1]),
                        !.w = <<[bw EXCEPT !.buf = Append(@, line)]>>, !.b = FALSE]

\* let _ = writeln!(writer, ..) through the RefMut, which is dropped afterwards:
\* a line that does not fit makes the BufWriter flush its buffer first, and when
\* that fails the write returns an Err, which is dropped with the line
WriteLine(ls, line) ==
    IF Len(ls.w[1].buf) >= BufCap /\ WriteFails(ls.w[1]) THEN [ls EXCEPT !.b = FALSE]
    ELSE LET bw == IF Len(ls.w[1].buf) < BufCap THEN ls.w[1] ELSE Flushed(ls.w[1])
         IN [ls EXCEPT !.fs = IF Len(ls.w[1].buf) < BufCap THEN ls.fs
                               ELSE FlushBuf(ls.fs, ls.w[1]),
                        !.w = <<[bw EXCEPT !.buf = Append(@, line)]>>, !.b = FALSE]

\* a format that reifies the arguments first: take the writer, write, release
TakeAndWrite(ls, line) ==
    LET g == TakeWriter(ls)
    IN IF Running(g) THEN WriteLine(g, line) ELSE g

Frame(rec, rest, holding) ==
    [rec |-> rec, rest |-> rest, holding |-> holding, pc |-> "render"]

\* a variant of TakesWriterFirst: the default format borrows the cell first too
TakesWriterAlways(lg) == TRUE

\* does the installed format take the writer before it renders the arguments?
TakesWriterFirst(lg) == lg.formatter = <<"GetFirst">>

\* the format function on a record whose rendering issues the nested calls rest
Format(lg, ls, rec, rest) ==
    IF TakesWriterFirst(lg)
    THEN LET g == TakeWriter(ls)
         IN IF ~Running(g) THEN g
            ELSE IF rest = <<>> THEN WriteLine(g, Render(lg, rec))
            ELSE [g EXCEPT !.fr = <<Frame(rec, rest, TRUE)>>]
    ELSE IF rest = <<>> THEN TakeAndWrite(ls, Render(lg, rec))
         ELSE [ls EXCEPT !.fr = <<Frame(rec, rest, FALSE)>>]

\* FilePerThreadLogger::log, up to the point where the message is rendered
CallLog(lg, ls, t, rec, rest) ==
    IF ~Enabled(lg, rec.level) THEN ls
    ELSE LET a == [ls EXCEPT !.acc = Append(@, rec)]
             l == LazyInit(a, t)
         IN IF Running(l) THEN Format(lg, l, rec, rest) ELSE l

\* the rest of a log call once its message is rendered
FinishLog(lg, ls, fr) ==
    IF fr.holding THEN WriteLine(ls, Render(lg, fr.rec))
    ELSE TakeAndWrite(ls, Render(lg, fr.rec))

\* FilePerThreadLogger::flush
CallFlush(ls) ==
    LET g == TakeWriter(ls)
    IN IF ~Running(g) THEN g
       ELSE [g EXCEPT !.fs = FlushBuf(g.fs, g.w[1]), !.w = <<Flushed(g.w[1])>>,
                      !.b = FALSE]

\* the new state of thread t: a panic drops its suspended calls
Commit(t, ls, base) ==
    /\ writer' = [writer EXCEPT ![t] = ls.w]
    /\ borrowed' = [borrowed EXCEPT ![t] = ls.b]
    /\ status' = [status EXCEPT ![t] = ls.st]
    /\ accepted' = [accepted EXCEPT ![t] = ls.acc]
    /\ opens' = [opens EXCEPT ![t] = ls.op]
    /\ files' = ls.fs
    /\ stack' = [stack EXCEPT ![t] = IF Running(ls) THEN base \o ls.fr ELSE <<>>]

----------------------------------------------------------------------------
\* The operations.

Init ==
    /\ tname \in ThreadNames
    /\ allow = FALSE
    /\ logger = <<>>
    /\ files = [p \in {} |-> <<>>]
    /\ writer = [t \in Threads |-> <<>>]
    /\ borrowed = [t \in Threads |-> FALSE]
    /\ stack = [t \in Threads |-> <<>>]
    /\ status = [t \in Threads |-> "running"]
    /\ emitted = [t \in Threads |-> 0]
    /\ accepted = [t \in Threads |-> <<>>]
    /\ opens = [t \in Threads |-> <<>>]
    /\ inits = [t \in Threads |-> 0]
    /\ disk = "ok"

RECURSIVE Sum(_, _)
Sum(f, S) == IF S = {} THEN 0
             ELSE LET x == CHOOSE y \in S : TRUE IN f[x] + Sum(f, S \ {x})

\* the calls of the application so far
Calls == Sum(inits, Threads) + Sum(emitted, Threads)

\* thread t is between two calls of the library
Idle(t) == status[t] = "running" /\ stack[t] = <<>>

\* A log macro: the facade hands the record to the installed logger; before
\* set_max_level(LevelFilter::max()) its level check drops every record.
Dispatch(lg, ls, t, rec, rest) ==
    IF lg = <<>> THEN ls ELSE CallLog(lg[1], ls, t, rec, rest)

\* a variant of SetBoxedLogger: a later logger replaces the installed one
SetBoxedLoggerReplaces(cur, new) == <<new>>

\* a variant of SetBoxedLogger: nothing is installed
SetBoxedLoggerNever(cur, new) == cur

\* log::set_boxed_logger: the first logger stays
SetBoxedLogger(cur, new) == IF cur = <<>> THEN <<new>> ELSE cur

\* a variant of NewLogger: the formatter given to initialize is not kept
NewLoggerDefaultFormat(env, fm) == [filter |-> ParseFilters(env[1]), formatter |-> <<>>]

\* FilePerThreadLogger::new(logger, formatter) on the filter RUST_LOG gives
NewLogger(env, fm) == [filter |-> ParseFilters(env[1]), formatter |-> fm]

\* a variant of EnvIsNone: the test is inverted
EnvIsSome(env) == env # <<>>

\* a variant of EnvIsNone: init_logging does not return early
EnvIsNoneNever(env) == FALSE

\* env::var_os("RUST_LOG").is_none()
EnvIsNone(env) == env = <<>>

AllowUninitialized ==
    /\ allow' = TRUE
    /\ UNCHANGED <<tname, logger, files, writer, borrowed, stack, status,
                   emitted, accepted, opens, inits, disk>>

\* initialize(prefix) (fm = <<>>) and initialize_with_formatter(prefix, fm),
\* called while RUST_LOG is env: <<>> (unset) or <<value>>
InitLogging(t, prefix, fm, env) ==
    /\ Idle(t)
    /\ Calls < MaxCalls
    /\ IF EnvIsNone(env)
       THEN UNCHANGED <<logger, files, writer, borrowed, stack, status,
                           accepted, opens>>
       ELSE IF env = <<>>
       THEN /\ Commit(t, Panic(Local(t), "panic_unwrap"), <<>>)
            /\ UNCHANGED logger
       ELSE LET e == EnsureWriter(Local(t), t, prefix)
                lg == SetBoxedLogger(logger, NewLogger(env, fm))
                r == IF Running(e) THEN Dispatch(lg, e, t, Banner(t, prefix), <<>>)
                     ELSE e
            IN /\ logger' = IF Running(e) THEN lg ELSE logger
               /\ Commit(t, r, <<>>)
    /\ inits' = [inits EXCEPT ![t] = @ + 1]
    /\ UNCHANGED <<tname, allow, emitted, disk>>

\* An emission is the sequence of the levels of a record and of the records
\* nested in it: rendering the message of the first emits the second.
Chains ==
    { <<l>> : l \in AppLevels } \cup { <<l, m>> : l \in AppLevels, m \in AppLevels }

\* a log macro in application code, of an application that emits room more records
EmitWithin(t, chain, room) ==
    /\ Idle(t)
    /\ Len(chain) <= room
    /\ LET rec == AppRecord(t, emitted[t] + 1, Head(chain), 0)
       IN /\ emitted' = [emitted EXCEPT ![t] = @ + 1]
          /\ Commit(t, Dispatch(logger, Local(t), t, rec, Tail(chain)), <<>>)
    /\ UNCHANGED <<tname, allow, logger, inits, disk>>

Emit(t, chain) == EmitWithin(t, chain, MaxCalls - Calls)

Top(t) == stack[t][Len(stack[t])]
Below(t) == SubSeq(stack[t], 1, Len(stack[t]) - 1)

\* a log macro reached while the message of a log call is rendered
NestedLog(t) ==
    /\ status[t] = "running"
    /\ stack[t] # <<>>
    /\ Top(t).pc = "render"
    /\ LET rec == AppRecord(t, emitted[t] + 1, Head(Top(t).rest), Len(stack[t]))
           base == Append(Below(t), [Top(t) EXCEPT !.pc = "rendered"])
       IN /\ emitted' = [emitted EXCEPT ![t] = @ + 1]
          /\ Commit(t, Dispatch(logger, Local(t), t, rec, Tail(Top(t).rest)), base)
    /\ UNCHANGED <<tname, allow, logger, inits, disk>>

\* the message is rendered: the log call goes on
Resume(t) ==
    /\ status[t] = "running"
    /\ stack[t] # <<>>
    /\ Top(t).pc = "rendered"
    /\ Commit(t, FinishLog(logger[1], Local(t), Top(t)), Below(t))
    /\ UNCHANGED <<tname, allow, logger, emitted, inits, disk>>

\* log::logger().flush(): before a logger is installed it is the facade's no-op
Flush(t) ==
    /\ Idle(t)
    /\ Commit(t, IF logger = <<>> THEN Local(t) ELSE CallFlush(Local(t)), <<>>)
    /\ UNCHANGED <<tname, allow, logger, emitted, inits, disk>>

Next ==
    \/ AllowUninitialized
    \/ \E t \in Threads, prefix \in Prefixes, fm \in Formatters, env \in EnvValues :
          InitLogging(t, prefix, fm, env)
    \/ \E t \in Threads, chain \in Chains : Emit(t, chain)
    \/ \E t \in Threads : NestedLog(t)
    \/ \E t \in Threads : Resume(t)
    \/ \E t \in Threads : Flush(t)

Spec == Init /\ [][Next]_vars

\* An application that logs through the default format, with the info filter,
\* and emits one record, whose message nests log calls MaxDepth deep.
RECURSIVE ChainsOfLen(_)
ChainsOfLen(n) ==
    IF n = 0 THEN { <<>> }
    ELSE { <<l>> \o c : l \in AppLevels, c \in ChainsOfLen(n - 1) }

DeepChains == ChainsOfLen(MaxDepth)

NextDeep ==
    \/ AllowUninitialized
    \/ \E t \in Threads, prefix \in Prefixes : InitLogging(t, prefix, <<>>, <<"info">>)
    \/ \E t \in Threads, chain \in DeepChains : EmitWithin(t, chain, MaxDepth - Sum(emitted, Threads))
    \/ \E t \in Threads : NestedLog(t)
    \/ \E t \in Threads : Resume(t)
    \/ \E t \in Threads : Flush(t)

SpecDeep == Init /\ [][NextDeep]_vars

\* The environment: the disk the files are on fills up, and space is freed.
DiskFills ==
    /\ disk = "ok"
    /\ disk' = "full"
    /\ UNCHANGED <<tname, allow, logger, files, writer, borrowed, stack, status,
                   emitted, accepted, opens, inits>>

DiskFreed ==
    /\ disk = "full"
    /\ disk' = "ok"
    /\ UNCHANGED <<tname, allow, logger, files, writer, borrowed, stack, status,
                   emitted, accepted, opens, inits>>

\* One thread of the program on a disk whose writes may fail.
NextIO ==
    \/ AllowUninitialized
    \/ \E prefix \in Prefixes, fm \in Formatters, env \in EnvValues :
          InitLogging(1, prefix, fm, env)
    \/ \E chain \in Chains : Emit(1, chain)
    \/ NestedLog(1)
    \/ Resume(1)
    \/ Flush(1)
    \/ DiskFills
    \/ DiskFreed

SpecIO == Init /\ [][NextIO]_vars

----------------------------------------------------------------------------
\* Vocabulary of the properties.

Range(q) == { q[i] : i \in 1..Len(q) }

HasSink(t) == writer[t] # <<>>
Sink(t) == writer[t][1]

\* thread t created a path that another thread created too
Collides(t) ==
    \E u \in Threads \ {t} : Range(opens[t]) \cap Range(opens[u]) # {}

\* the number of lines written through t's sink
Written(t) == Sink(t).off + Len(Sink(t).buf)

\* the lines of t's file followed by the lines its sink still buffers
Lines(t) == files[Sink(t).path] \o Sink(t).buf

IsMsg(line) == line.args # <<>> /\ line.args[1] = "msg"
IsBanner(rec) == rec.args # <<>> /\ rec.args[1] = "Set up logging; filename prefix is "

DefaultFormat == logger # <<>> /\ logger[1].formatter = <<>>

\* P of every initialize call the step is
AllInits(P(_, _, _, _)) ==
    \A t \in Threads :
        inits'[t] # inits[t] =>
            \A prefix \in Prefixes, fm \in Formatters, env \in EnvValues :
                P(t, prefix, fm, env) \/ ~InitLogging(t, prefix, fm, env)

----------------------------------------------------------------------------
\* C1 (as stated): the file bound to a thread holds no record emitted on another
\* thread, and once the thread's sink is flushed it holds exactly the records
\* that were emitted on the thread and passed the filter.
C1_FileHoldsOwnRecords ==
    \A t \in Threads :
        /\ \A p \in Range(opens[t]) : \A i \in 1..Len(files[p]) : files[p][i].by = t
        /\ (Idle(t) /\ HasSink(t) /\ Sink(t).buf = <<>>) =>
              /\ Len(files[Sink(t).path]) = Len(accepted[t])
              /\ { RecordOf(l) : l \in Range(files[Sink(t).path]) } = Range(accepted[t])

\* C1 (amended): the same for every thread whose path no other thread created:
\* two threads whose names sanitize to the same text share one file.
C1_FileHoldsOwnRecordsUnlessShared ==
    \A t \in Threads :
        ~Collides(t) =>
            /\ \A p \in Range(opens[t]) : \A i \in 1..Len(files[p]) : files[p][i].by = t
            /\ (Idle(t) /\ HasSink(t) /\ Sink(t).buf = <<>>) =>
                  /\ Len(files[Sink(t).path]) = Len(accepted[t])
                  /\ { RecordOf(l) : l \in Range(files[Sink(t).path]) }
                        = Range(accepted[t])

\* two threads have flushed a record of the application each to a file of their own
C1_Witness ==
    \A t \in Threads :
        /\ ~Collides(t) /\ Idle(t) /\ HasSink(t) /\ Sink(t).buf = <<>>
        /\ \E l \in Range(files[Sink(t).path]) : IsMsg(l)

----------------------------------------------------------------------------
\* C2: the backend is installed by an initialize call that sees a filter and
\* returns; once installed the logger (filter and formatter) never changes, and
\* an initialize call touches no other thread's slot.
C2_Installs(t, prefix, fm, env) ==
    /\ (logger = <<>> /\ env # <<>> /\ status'[t] = "running")
          => logger' = <<NewLogger(env, fm)>>
    /\ (logger = <<>> /\ env = <<>>) => logger' = <<>>
    /\ \A u \in Threads \ {t} :
          /\ writer'[u] = writer[u]
          /\ borrowed'[u] = borrowed[u]
          /\ stack'[u] = stack[u]
          /\ status'[u] = status[u]

C2_InstalledOnceForGood ==
    /\ [][logger # <<>> => logger' = logger]_vars
    /\ [][AllInits(C2_Installs)]_vars
    /\ [][(logger = <<>> /\ logger' # <<>>) =>
            \E t \in Threads, prefix \in Prefixes, fm \in Formatters,
               env \in EnvValues : InitLogging(t, prefix, fm, env)]_vars

\* both threads ran initialize with a filter set: the second call found a logger
C2_Witness ==
    /\ logger # <<>> /\ ~allow
    /\ \A t \in Threads : HasSink(t) /\ inits[t] > 0 /\ Idle(t)

----------------------------------------------------------------------------
\* C3 (as stated): initialize with an empty or an absent filter creates no file.
C3_NoFile(t, prefix, fm, env) ==
    env \in { <<>>, <<"">> } => (files' = files /\ opens' = opens)

C3_EmptyOrAbsentCreatesNoFile == [][AllInits(C3_NoFile)]_vars

\* C3 (amended): initialize with an absent filter changes nothing; and as long
\* as no initialize call has installed a backend, no file exists, whatever was
\* logged or flushed on whatever thread.
C3_Nothing(t, prefix, fm, env) ==
    env = <<>> => UNCHANGED <<files, opens, logger, writer, status, accepted>>

C3_AbsentCreatesNoFile ==
    /\ [][AllInits(C3_Nothing)]_vars
    /\ [](logger = <<>> => (DOMAIN files = {} /\ \A t \in Threads : opens[t] = <<>>))

\* initialize ran without a filter, both threads logged, with the policy active
C3_Witness ==
    /\ logger = <<>> /\ allow
    /\ inits[1] > 0 /\ emitted[1] > 0 /\ emitted[2] > 0
    /\ \A t \in Threads : Idle(t)

----------------------------------------------------------------------------
\* C4: a thread creates at most one file, and once its slot holds a sink no step
\* creates a file for it or changes the sink's path, whether the step is an
\* initialize with any prefix, a log call or a flush.
C4_SinkNeverReplaced ==
    /\ [](\A t \in Threads : Len(opens[t]) <= 1)
    /\ [][\A t \in Threads :
            HasSink(t) =>
               /\ opens'[t] = opens[t]
               /\ status'[t] = "running" =>
                     (writer'[t] # <<>> /\ writer'[t][1].path = Sink(t).path)]_vars

\* a sink the policy created with the empty prefix, then an initialize with a
\* prefix on the same thread, whose banner went to that sink
C4_Witness ==
    \E t \in Threads :
        /\ Idle(t) /\ HasSink(t) /\ inits[t] > 0
        /\ Sink(t).path = SinkPath(t, <<>>)
        /\ \E l \in Range(Lines(t)) : IsBanner(l)

----------------------------------------------------------------------------
\* C5: with the policy inactive, a thread that never got a sink and has logged
\* an enabled record has panicked with the contract violation; and with the
\* policy inactive only initialize creates files.
C5_UninitializedLogPanics ==
    /\ [](\A t \in Threads :
            (~allow /\ opens[t] = <<>> /\ accepted[t] # <<>> /\ stack[t] = <<>>)
               => status[t] = "panic_uninit")
    /\ [][\A t \in Threads :
            (~allow' /\ opens'[t] # opens[t]) =>
               \E prefix \in Prefixes, fm \in Formatters, env \in EnvValues :
                  InitLogging(t, prefix, fm, env)]_vars

C5_Witness ==
    /\ ~allow
    /\ \E t \in Threads :
          status[t] = "panic_uninit" /\ accepted[t] # <<>> /\ opens[t] = <<>>

----------------------------------------------------------------------------
\* C6 (as stated): no filter, initialize on thread 1, then thread 2 logs without
\* initialize and with the policy inactive: thread 2 has aborted.
C6_ChildAborts ==
    (/\ logger = <<>> /\ ~allow
     /\ inits[1] > 0 /\ status[1] = "running"
     /\ inits[2] = 0 /\ emitted[2] > 0 /\ stack[2] = <<>>)
        => status[2] # "running"

\* C6 (amended): as long as no backend is installed no thread aborts for logging
\* or flushing (only a file that cannot be created aborts an initialize), no
\* record passes and no file exists.
C6_NoBackendNoAbort ==
    logger = <<>> =>
        /\ \A t \in Threads :
              status[t] \in {"running", "panic_open"} /\ accepted[t] = <<>>
        /\ DOMAIN files = {}

C6_Witness ==
    /\ logger = <<>> /\ ~allow
    /\ inits[1] > 0 /\ status[1] = "running"
    /\ inits[2] = 0 /\ emitted[2] > 0 /\ Idle(2)

----------------------------------------------------------------------------
----------------------------------------------------------------------------
\* C8 (as stated): with the default format a nested write is dropped: no record
\* emitted inside a log call is in a sink or a file.
C8_NestedWriteDropped ==
    DefaultFormat =>
        /\ \A t \in Threads : HasSink(t) => \A l \in Range(Sink(t).buf) : l.depth = 0
        /\ \A p \in DOMAIN files : \A l \in Range(files[p]) : l.depth = 0

\* the number of the emission a line was written for
Num(line) == CHOOSE n \in 0..9 : Digit(n) = line.args[2]

\* line j is the record the rendering of line i's message emitted
NestedIn(W, j, i) ==
    /\ IsMsg(W[i]) /\ IsMsg(W[j])
    /\ W[j].depth = W[i].depth + 1
    /\ Num(W[j]) = Num(W[i]) + 1

\* C8 (amended): with the default format no log call faults on a double borrow
\* and none leaves the cell borrowed; when the calls have returned every record
\* that passed the filter went through the sink, the nested record's line before
\* the line of the record whose message emitted it.
C8_NestedWriteFirst ==
    DefaultFormat =>
        \A t \in Threads :
            /\ status[t] # "panic_borrow"
            /\ ~borrowed[t]
            /\ (Idle(t) /\ HasSink(t)) => Written(t) = Len(accepted[t])
            /\ (Idle(t) /\ HasSink(t) /\ ~Collides(t)) =>
                  \A i \in 1..Len(Lines(t)), j \in 1..Len(Lines(t)) :
                      NestedIn(Lines(t), j, i) => j < i

C8_Witness ==
    /\ DefaultFormat
    /\ \E t \in Threads :
          /\ Idle(t) /\ HasSink(t) /\ ~Collides(t)
          /\ \E i \in 1..Len(Lines(t)), j \in 1..Len(Lines(t)) :
                NestedIn(Lines(t), j, i)

----------------------------------------------------------------------------
C9_Reenters(t) ==
    /\ status[t] = "running" /\ stack[t] # <<>>
    /\ Top(t).pc = "render" /\ Top(t).holding
    /\ Enabled(logger[1], Head(Top(t).rest))

----------------------------------------------------------------------------
\* C10: flush touches the calling thread's sink only; on a thread without a sink
\* it panics when the policy is inactive and does not when it is active.
C10_FlushOwnSinkPolicy ==
    [][\A t \in Threads :
         Flush(t) =>
            /\ \A u \in Threads \ {t} : writer'[u] = writer[u]
            /\ (logger # <<>> /\ ~HasSink(t)) =>
                  (status'[t] = "panic_uninit" <=> ~allow)]_vars

----------------------------------------------------------------------------
\* thread t's sink was created by initialize(prefix), in a file of its own,
\* under a backend that passes INFO
C11_Initialized(t, prefix) ==
    /\ Idle(t) /\ HasSink(t) /\ ~Collides(t)
    /\ Creatable(SinkPath(t, prefix)) /\ Sink(t).path = SinkPath(t, prefix)
    /\ opens[t] = <<SinkPath(t, prefix)>>
    /\ Enabled(logger[1], "INFO")

----------------------------------------------------------------------------
\* C12 (as stated): once initialize_with_formatter(prefix, f) has returned with
\* a filter present, f is the format the backend writes records through.
C12_GivenUsed(t, prefix, fm, env) ==
    (env # <<>> /\ fm # <<>> /\ status'[t] = "running") =>
        (logger' # <<>> /\ logger'[1].formatter = fm)

C12_GivenFormatterUsed == [][AllInits(C12_GivenUsed)]_vars

\* the line was written by the format function f (<<>>: the default format)
C12_WrittenBy(line, f) ==
    line = Hole \/ line.fmt = (IF f = <<>> THEN "default" ELSE f[1])

\* C12 (amended): f is the format of the backend when the call installs the
\* backend; a call that finds a backend installed leaves its format in place.
\* Every record is written through the installed backend's format.
C12_Installed(t, prefix, fm, env) ==
    (env # <<>> /\ status'[t] = "running") =>
        /\ logger' # <<>>
        /\ logger'[1].formatter = (IF logger = <<>> THEN fm ELSE logger[1].formatter)

C12_FirstFormatterUsed ==
    /\ [][AllInits(C12_Installed)]_vars
    /\ [](logger # <<>> =>
            /\ \A p \in DOMAIN files : \A l \in Range(files[p]) :
                  C12_WrittenBy(l, logger[1].formatter)
            /\ \A t \in Threads : HasSink(t) =>
                  \A l \in Range(Sink(t).buf) : C12_WrittenBy(l, logger[1].formatter))

\* a record of a thread that never called initialize, written through the
\* format another thread's initialize_with_formatter installed
C12_Witness ==
    /\ logger # <<>> /\ logger[1].formatter = <<"GetFirst">>
    /\ \E t \in Threads :
          /\ inits[t] = 0 /\ Idle(t) /\ HasSink(t)
          /\ \E l \in Range(Lines(t)) : IsMsg(l) /\ l.fmt = "GetFirst"

----------------------------------------------------------------------------
\* the records of the lines written through t's sink, in the order of the lines
C13_WrittenRecords(t) == [i \in 1..Len(Lines(t)) |-> RecordOf(Lines(t)[i])]

\* thread t is between two calls, and every line of its sink's file is its own
C13_Settled(t) == Idle(t) /\ HasSink(t) /\ ~Collides(t)

\* C13 (as stated): the records of a thread are written to its sink in the
\* order their log calls started, nested calls included.
C13_WrittenInEmissionOrder ==
    \A t \in Threads : C13_Settled(t) => C13_WrittenRecords(t) = accepted[t]

\* the number of records at the head of acc that were emitted inside of a log
\* call of depth d
RECURSIVE C13_InnerLen(_, _)
C13_InnerLen(acc, d) ==
    IF acc = <<>> \/ Head(acc).depth <= d THEN 0
    ELSE 1 + C13_InnerLen(Tail(acc), d)

\* the order in which the log calls of acc write: a record comes after the
\* records the rendering of its message emitted
RECURSIVE C13_WriteOrder(_)
C13_WriteOrder(acc) ==
    IF acc = <<>> THEN <<>>
    ELSE LET k == C13_InnerLen(Tail(acc), Head(acc).depth)
         IN C13_WriteOrder(SubSeq(Tail(acc), 1, k)) \o <<Head(acc)>>
               \o C13_WriteOrder(SubSeq(Tail(acc), k + 1, Len(acc) - 1))

\* C13 (amended): log calls that follow one another write in the order of their
\* emission; a record emitted while the message of another is rendered is
\* written before that one.
C13_WrittenInWriteOrder ==
    \A t \in Threads :
        C13_Settled(t) => C13_WrittenRecords(t) = C13_WriteOrder(accepted[t])

\* a banner, then a record whose message logged another one
C13_Witness ==
    \E t \in Threads :
        /\ C13_Settled(t) /\ Len(Lines(t)) = 3
        /\ IsBanner(Lines(t)[1]) /\ NestedIn(Lines(t), 2, 3)

----------------------------------------------------------------------------
----------------------------------------------------------------------------
\* the text with every character that is not alphanumeric, '-' or '_' removed
RECURSIVE C15_Kept(_)
C15_Kept(text) ==
    IF text = <<>> THEN <<>>
    ELSE (IF Head(text) \in {":", ".", "/", "(", ")"} THEN <<>> ELSE <<Head(text)>>)
            \o C15_Kept(Tail(text))

\* the name of the thread, or the debug rendering of its id
C15_Name(t) == IF tname[t] = <<>> THEN ThreadIdDebug(t) ELSE tname[t][1]

C15_InitPath(t, prefix, fm, env) ==
    opens'[t] # opens[t] => opens'[t] = Append(opens[t], prefix \o C15_Kept(C15_Name(t)))

----------------------------------------------------------------------------
\* C16 (as stated): initialize with an empty or an absent filter changes
\* nothing: no backend is installed, the slot of the thread is unchanged, no
\* banner is emitted.
C16_NoChange(t, prefix, fm, env) ==
    env \in { <<>>, <<"">> } =>
        UNCHANGED <<logger, writer, borrowed, stack, status, accepted, files, opens>>

C16_EmptyOrAbsentChangesNothing == [][AllInits(C16_NoChange)]_vars

C16_AbsentNoChange(t, prefix, fm, env) ==
    env = <<>> =>
        /\ UNCHANGED <<allow, logger, writer, borrowed, stack, status, accepted,
                       files, opens, emitted, disk>>
        /\ ~HasSink(t) => writer'[t] = <<>>

\* C16 (amended): initialize with an absent filter changes nothing, and does
\* not count as initialisation: a thread whose initialize calls all saw no
\* filter has no sink of its own making, and with a backend installed and the
\* policy inactive its log call of an enabled record panics.
C16_AbsentChangesNothing ==
    /\ [][AllInits(C16_AbsentNoChange)]_vars
    /\ [][\A t \in Threads :
            (~allow /\ logger # <<>> /\ ~HasSink(t) /\ emitted'[t] # emitted[t]) =>
               \A l \in AppLevels :
                  (Enabled(logger[1], l) /\ Emit(t, <<l>>)) =>
                     status'[t] = "panic_uninit"]_vars

\* a backend is installed, and a thread that called initialize without a
\* filter has panicked in its first log call
C16_Witness ==
    /\ logger # <<>> /\ ~allow
    /\ \E t \in Threads :
          inits[t] > 0 /\ opens[t] = <<>> /\ status[t] = "panic_uninit"

----------------------------------------------------------------------------
\* the installed filter rejects the level: it is more verbose than the filter
C17_Rejected(level) == logger # <<>> /\ LevelRank(level) > LevelRank(logger[1].filter)

\* C17: a log call of a record the filter rejects changes nothing but the count
\* of the emitted records: nothing is written, no file is created (with the
\* policy active too), the thread does not panic (without a sink and with the
\* policy inactive too, and inside a format that holds the writer too), and a
\* log call nested in the message of the record does not happen.
C17_RejectedIsNoOp ==
    /\ [][\A t \in Threads :
            emitted'[t] # emitted[t] =>
               \A chain \in Chains :
                  (C17_Rejected(Head(chain)) /\ Emit(t, chain)) =>
                     /\ emitted'[t] = emitted[t] + 1
                     /\ UNCHANGED <<allow, logger, files, writer, borrowed, stack,
                                    status, accepted, opens, inits, disk>>]_vars
    /\ [][\A t \in Threads :
            (stack[t] # <<>> /\ C17_Rejected(Head(Top(t).rest)) /\ NestedLog(t)) =>
               /\ UNCHANGED <<allow, logger, files, writer, borrowed, status,
                              accepted, opens, inits, disk>>
               /\ Len(stack'[t]) = Len(stack[t])]_vars

\* a thread without a sink has logged a rejected record with the policy
\* inactive, and goes on
C17_Witness ==
    /\ logger # <<>> /\ ~allow
    /\ \E t \in Threads :
          /\ emitted[t] > 0 /\ Idle(t)
          /\ ~HasSink(t) /\ opens[t] = <<>> /\ accepted[t] = <<>>

----------------------------------------------------------------------------
\* C18: with the default format no borrow of the cell is held while a message
\* is rendered (by a log call suspended at any depth) nor between two calls, and
\* no thread faults on a double borrow; a thread that holds a sink goes on
\* through log calls nested at any depth, with the policy active or inactive;
\* and a log call writes its line when its message is rendered, after the lines
\* of the calls nested in it.
C18_NoBorrowWhileRendering ==
    /\ [](\A t \in Threads :
            /\ ~borrowed[t]
            /\ status[t] # "panic_borrow"
            /\ \A i \in 1..Len(stack[t]) : ~stack[t][i].holding)
    /\ [][\A t \in Threads :
            (HasSink(t) /\ status[t] = "running") =>
               /\ status'[t] = "running"
               /\ writer'[t] # <<>> /\ writer'[t][1].path = Sink(t).path]_vars
    /\ [][\A t \in Threads :
            (HasSink(t) /\ status[t] = "running" /\ stack[t] # <<>>
                /\ Len(stack'[t]) < Len(stack[t])) =>
               /\ Len(writer'[t][1].buf) + writer'[t][1].off = Written(t) + 1
               /\ writer'[t][1].buf[Len(writer'[t][1].buf)]
                     = Render(logger[1], Top(t).rec)]_vars

\* log calls nested three deep have written their lines, the innermost first,
\* with the policy inactive and with the policy active
C18_Witness ==
    /\ DefaultFormat
    /\ \E t \in Threads :
          /\ Idle(t) /\ HasSink(t) /\ ~Collides(t) /\ Len(Lines(t)) >= 3
          /\ LET n == Len(Lines(t))
             IN /\ Lines(t)[n - 2].depth = 2
                /\ Lines(t)[n - 1].depth = 1
                /\ Lines(t)[n].depth = 0 /\ IsMsg(Lines(t)[n])

----------------------------------------------------------------------------
\* the step leaves everything but thread t's status and counters as it was
C19_OnlyAborts(t) ==
    /\ writer[t] = <<>> /\ writer'[t] = <<>>
    /\ ~borrowed'[t] /\ stack'[t] = <<>>
    /\ UNCHANGED <<allow, logger, files, opens, disk>>
    /\ \A u \in Threads \ {t} :
          /\ writer'[u] = writer[u] /\ borrowed'[u] = borrowed[u]
          /\ status'[u] = status[u] /\ stack'[u] = stack[u]

C19_InitAborts(t, prefix, fm, env) ==
    (env # <<>> /\ ~HasSink(t) /\ ~Creatable(SinkPath(t, prefix))) =>
        (status'[t] = "panic_open" /\ C19_OnlyAborts(t))

\* C19: an initialize that sees a filter on a thread without a sink whose file
\* cannot be created, and a log call of an enabled record under the policy on
\* such a thread, panic the thread; and the step that panics a thread on the
\* creation of its file leaves its slot empty and not borrowed, and changes no
\* other thread's slot, nor the installed backend, nor a file.
C19_CreationFailureAborts ==
    /\ [][AllInits(C19_InitAborts)]_vars
    /\ [][\A t \in Threads :
            (allow /\ logger # <<>> /\ ~HasSink(t) /\ emitted'[t] # emitted[t]
                /\ ~Creatable(SinkPath(t, <<>>))) =>
               \A chain \in Chains :
                  (Enabled(logger[1], Head(chain)) /\ Emit(t, chain)) =>
                     status'[t] = "panic_open"]_vars
    /\ [][\A t \in Threads :
            (status[t] = "running" /\ status'[t] = "panic_open") => C19_OnlyAborts(t)]_vars

\* under the policy a thread whose name sanitizes to nothing has panicked in its
\* log call, next to a thread that holds a sink
C19_Witness ==
    /\ allow /\ logger # <<>>
    /\ \E t \in Threads :
          /\ status[t] = "panic_open" /\ inits[t] = 0 /\ emitted[t] > 0
          /\ \E u \in Threads \ {t} : HasSink(u) /\ Idle(u) /\ Sink(u).buf # <<>>

====
